---------------------------- MODULE Spec2Model ----------------------------
(***************************************************************************)
(* Model of bot.py: a Discord direct-message expense logger that appends   *)
(* rows to a per-user Google spreadsheet.                                  *)
(*                                                                         *)
(* A message text is a sequence of one-character strings, so that the     *)
(* string operations of the handler (lower, startswith, in, strip, split, *)
(* float) are computed and not assumed.  An amount is kept in hundredths. *)
(* A spreadsheet identifier is the position of the spreadsheet in the     *)
(* external service's list of created spreadsheets.                       *)
(***************************************************************************)
EXTENDS Integers, Sequences, FiniteSets, Bags, TLC

(***************************************************************************)
(* Bounds of the model.                                                    *)
(***************************************************************************)
MaxSheets == 2
MaxRows == 1
MaxInFlight == 2
MaxRecords == 6

(***************************************************************************)
(* Python string operations on sequences of characters.                    *)
(***************************************************************************)
UpperCase == <<"A","B","C","D","E","F","G","H","I","J","K","L","M",
               "N","O","P","Q","R","S","T","U","V","W","X","Y","Z">>
LowerCase == <<"a","b","c","d","e","f","g","h","i","j","k","l","m",
               "n","o","p","q","r","s","t","u","v","w","x","y","z">>
Digits == <<"0","1","2","3","4","5","6","7","8","9">>

LowerChar(c) ==
    IF \E i \in 1..26 : UpperCase[i] = c
    THEN LowerCase[CHOOSE i \in 1..26 : UpperCase[i] = c]
    ELSE c

\* str.lower()
Lower(s) == [i \in 1..Len(s) |-> LowerChar(s[i])]

\* str.startswith(p)
StartsWith(s, p) == Len(s) >= Len(p) /\ SubSeq(s, 1, Len(p)) = p

\* sub in s
Contains(s, sub) ==
    \E i \in 1..(Len(s) - Len(sub) + 1) : SubSeq(s, i, i + Len(sub) - 1) = sub

IsSpace(c) == c \in {" "}

RECURSIVE LStrip(_)
LStrip(s) == IF s # <<>> /\ IsSpace(Head(s)) THEN LStrip(Tail(s)) ELSE s

RECURSIVE RStrip(_)
RStrip(s) ==
    IF s # <<>> /\ IsSpace(s[Len(s)]) THEN RStrip(SubSeq(s, 1, Len(s) - 1)) ELSE s

\* str.strip()
Strip(s) == RStrip(LStrip(s))

\* length of the leading run of non-whitespace characters
RECURSIVE TokenLen(_)
TokenLen(s) == IF s = <<>> \/ IsSpace(Head(s)) THEN 0 ELSE 1 + TokenLen(Tail(s))

\* str.split(): the whitespace-separated tokens, no empty token
RECURSIVE Split(_)
Split(s) ==
    LET t == LStrip(s)
        n == TokenLen(t)
    IN  IF t = <<>> THEN <<>>
        ELSE <<SubSeq(t, 1, n)>> \o Split(SubSeq(t, n + 1, Len(t)))

\* str.split(maxsplit=1): the first token, then the rest of the text from its
\* first non-whitespace character on, trailing whitespace kept
SplitMax1(s) ==
    LET t == LStrip(s)
        n == TokenLen(t)
        rest == LStrip(SubSeq(t, n + 1, Len(t)))
    IN  IF t = <<>> THEN <<>>
        ELSE IF rest = <<>> THEN <<SubSeq(t, 1, n)>>
        ELSE <<SubSeq(t, 1, n), rest>>

IsDigit(c) == \E i \in 1..10 : Digits[i] = c
DigitValue(c) == (CHOOSE i \in 1..10 : Digits[i] = c) - 1
AllDigits(s) == \A i \in 1..Len(s) : IsDigit(s[i])

RECURSIVE DigitsValue(_)
DigitsValue(s) ==
    IF s = <<>> THEN 0
    ELSE 10 * DigitsValue(SubSeq(s, 1, Len(s) - 1)) + DigitValue(s[Len(s)])

\* position of the decimal point of an unsigned literal, 0 when it has none
DotAt(s) == IF \E i \in 1..Len(s) : s[i] = "." THEN CHOOSE i \in 1..Len(s) : s[i] = "." ELSE 0

\* an unsigned decimal literal float() accepts: digits, digits.digits, digits. or .digits
IsUnsignedFloat(s) ==
    LET d == DotAt(s)
    IN  IF d = 0 THEN s # <<>> /\ AllDigits(s)
        ELSE /\ AllDigits(SubSeq(s, 1, d - 1))
             /\ AllDigits(SubSeq(s, d + 1, Len(s)))
             /\ Len(s) > 1

Unsigned(s) == IF s # <<>> /\ Head(s) \in {"+", "-"} THEN Tail(s) ELSE s

\* float(s) does not raise ValueError.  The literals of the model are plain
\* decimal literals: exponents, "inf", "nan" and digit underscores are left out.
IsFloat(s) == IsUnsignedFloat(Unsigned(Strip(s)))

\* the value of an unsigned literal in hundredths (digits after the second
\* decimal place are not used by the model's inputs)
UnsignedHundredths(s) ==
    LET d == DotAt(s)
        ip == IF d = 0 THEN s ELSE SubSeq(s, 1, d - 1)
        fp == IF d = 0 THEN <<>> ELSE SubSeq(s, d + 1, Len(s))
        f2 == SubSeq(fp \o <<"0", "0">>, 1, 2)
    IN  100 * DigitsValue(ip) + DigitsValue(f2)

\* float(s), in hundredths
Float(s) ==
    LET t == Strip(s)
    IN  IF t # <<>> /\ Head(t) = "-" THEN 0 - UnsignedHundredths(Tail(t))
        ELSE UnsignedHundredths(Unsigned(t))

RECURSIVE NatStr(_)
NatStr(n) ==
    IF n < 10 THEN <<Digits[n + 1]>>
    ELSE NatStr(n \div 10) \o <<Digits[(n % 10) + 1]>>

\* str(x) of a float x given in hundredths: the shortest decimal that reads
\* back as x, which always has a decimal point ("5" parses to 5.0 and prints "5.0")
FloatStr(v) ==
    LET a == IF v < 0 THEN 0 - v ELSE v
        ip == a \div 100
        fp == a % 100
        frac == IF fp % 10 = 0 THEN <<Digits[(fp \div 10) + 1]>>
                ELSE <<Digits[(fp \div 10) + 1], Digits[(fp % 10) + 1]>>
    IN  (IF v < 0 THEN <<"-">> ELSE <<>>) \o NatStr(ip) \o <<".">> \o frac


(***************************************************************************)
(* The message texts the model delivers.                                   *)
(***************************************************************************)
TFood5 == <<"F","o","o","d"," ","5">>
TFood0 == <<"F","o","o","d"," ","0">>
TFoodAbc == <<"F","o","o","d"," ","a","b","c">>
TFood == <<"F","o","o","d">>
TSetup == <<"!","s","e","t","u","p"," ","a","@","b">>
TSetupUpper == <<"!","S","E","T","U","P"," ","a","@","b">>
TSetupNoAt == <<"!","s","e","t","u","p"," ","a","b">>
TSetupNum == <<"!","s","e","t","u","p"," ","5">>
TSetupTwo == <<"!","s","e","t","u","p"," ","a","@","b"," ","c">>
TUrl == <<"!","u","r","l">>
TLinkUpper == <<"!","L","I","N","K">>
TSummary == <<"!","s","u","m","m","a","r","y">>
THelp == <<"h","e","l","p">>
TBang == <<"!","f","o","o">>
THelpful == <<"h","e","l","p","f","u","l">>
THi == <<"h","i">>

Texts == {TFood5, TFood0, TFoodAbc, TFood, TSetup, TSetupUpper, TSetupNoAt, TSetupNum, TSetupTwo, TUrl, TLinkUpper, TSummary, THelp, TBang, THelpful, THi}

\* the texts of the messages delivered outside a direct channel or by the bot
IgnoredTexts == {TSetup}

\* the texts of the specification with two senders
CoreTexts == {TSetup, TFood5, TUrl, TSummary, THi}

\* the literals on_message compares the text with
SetupPrefix == <<"!","s","e","t","u","p"," ">>
LinkCommands == {<<"!","s","h","e","e","t">>, <<"!","u","r","l">>, <<"!","l","i","n","k">>}
SummaryCommands == {<<"!","s","u","m","m","a","r","y">>, <<"!","e","x","p","e","n","s","e","s">>, <<"!","s","t","a","t","s">>}
HelpCommands == {<<"!","h","e","l","p">>, <<"h","e","l","p">>, <<"!","c","o","m","m","a","n","d","s">>}
WelcomeKeywords == {<<"h","e","l","p">>, <<"s","e","t","u","p">>}
Bang == <<"!">>
At == <<"@">>

(***************************************************************************)
(* The spreadsheet service's rows and records.                             *)
(***************************************************************************)
Header == <<"Date", "Category", "Amount">>

\* the clock readings datetime.now() returns in the model
Times == {[day |-> "2024-01-01", time |-> "10:00:00", epoch |-> 1704103200]}

\* now.strftime("%Y-%m-%d %H:%M:%S"): the date, a space, the time of day
StrfTime(now) == <<now.day, " ", now.time>>

\* f"ExpenseTracker_{user_id}_{timestamp}", timestamp being int(time.time())
SheetName(user_id, now) == <<"ExpenseTracker", user_id, now.epoch>>

\* sheet.get_all_records(): the rows below the first row, keyed by the header
GetAllRecords(rows) ==
    IF Len(rows) <= 1 THEN <<>>
    ELSE [i \in 1..(Len(rows) - 1) |->
            [Date |-> rows[i + 1][1], Category |-> rows[i + 1][2], Amount |-> rows[i + 1][3]]]

(***************************************************************************)
(* get_expense_summary                                                     *)
(***************************************************************************)
RECURSIVE SumAmounts(_)
SumAmounts(records) ==
    IF records = <<>> THEN 0
    ELSE Head(records).Amount + SumAmounts(Tail(records))

SelectCategory(records, c) == SelectSeq(records, LAMBDA r : r.Category = c)

\* the keys of the defaultdict, in insertion order (first appearance)
RECURSIVE CategoryKeys(_)
CategoryKeys(records) ==
    IF records = <<>> THEN <<>>
    ELSE LET init == CategoryKeys(SubSeq(records, 1, Len(records) - 1))
             c == records[Len(records)].Category
         IN  IF \E i \in 1..Len(init) : init[i] = c THEN init ELSE Append(init, c)

\* categories.items()
CategoryItems(records) ==
    LET keys == CategoryKeys(records)
    IN  [i \in 1..Len(keys) |->
            [category |-> keys[i], amount |-> SumAmounts(SelectCategory(records, keys[i]))]]

\* insertion of x into a sequence sorted by amount descending, after its equals
RECURSIVE InsertDesc(_, _)
InsertDesc(sorted, x) ==
    IF sorted = <<>> THEN <<x>>
    ELSE IF Head(sorted).amount >= x.amount THEN <<Head(sorted)>> \o InsertDesc(Tail(sorted), x)
    ELSE <<x>> \o sorted

\* sorted(items, key=amount, reverse=True): stable, equal amounts keep their order
RECURSIVE SortedDesc(_)
SortedDesc(items) ==
    IF items = <<>> THEN <<>>
    ELSE InsertDesc(SortedDesc(SubSeq(items, 1, Len(items) - 1)), items[Len(items)])

\* n / d rounded to the nearest integer, ties to even, for d > 0
RoundHalfEven(n, d) ==
    LET q == n \div d
        r == n - q * d
    IN  IF 2 * r < d THEN q
        ELSE IF 2 * r > d THEN q + 1
        ELSE IF q % 2 = 0 THEN q ELSE q + 1

\* (amount / total) * 100 formatted .1f, in tenths of a percent; total # 0
PercentTenths(amount, total) ==
    IF total > 0 THEN RoundHalfEven(amount * 1000, total)
    ELSE RoundHalfEven((0 - amount) * 1000, 0 - total)

\* records[-limit:] if len(records) > limit else records
Recent(records, limit) ==
    IF Len(records) > limit
    THEN SubSeq(records, Len(records) - limit + 1, Len(records))
    ELSE records

\* list.reverse()
Reverse(s) == [i \in 1..Len(s) |-> s[Len(s) + 1 - i]]

DefaultLimit == 5

\* The value get_expense_summary returns from fetched records: the literal
\* "No expenses recorded yet.", the rendered report, or the error text of the
\* exception its except clause catches (the division by a zero total).
SummaryOf(records, limit) ==
    IF records = <<>> THEN [kind |-> "no_expenses"]
    ELSE LET total == SumAmounts(records)
             items == CategoryItems(records)
             recent == Reverse(Recent(records, limit))
         IN  IF total = 0
             THEN [kind |-> "summary_error", text |-> "float division by zero"]
             ELSE [kind |-> "report",
                   recent |-> [i \in 1..Len(recent) |->
                                 [date |-> Split(recent[i].Date)[1],
                                  category |-> recent[i].Category,
                                  amount |-> recent[i].Amount]],
                   by_category |-> LET sorted == SortedDesc(items)
                                   IN  [i \in 1..Len(sorted) |->
                                          [category |-> sorted[i].category,
                                           amount |-> sorted[i].amount,
                                           percent |-> PercentTenths(sorted[i].amount, total)]],
                   total |-> total]

(***************************************************************************)
(* The state of the process and of the services it talks to.              *)
(***************************************************************************)
Users == {"u1", "u2"}
Bot == "bot"
Authors == Users \cup {Bot}

\* the value of user_sheet when no handle is resolved
None == 0

EmptyMap == [x \in {} |-> None]

VARIABLES
    config,            \* config["user_emails"]: user id -> record
    file,              \* the content of CONFIG_FILE
    user_sheets,       \* user id -> worksheet handle (the spreadsheet it refers to)
    first_time_users,  \* the set of welcomed user ids
    sheets,            \* the spreadsheets of the service, by identifier: title and rows
    tasks,             \* the bag of on_message coroutines suspended in an await
    last               \* the message whose handler has sent its last reply and returns

vars == <<config, file, user_sheets, first_time_users, sheets, tasks, last>>

\* f"https://docs.google.com/spreadsheets/d/{sheet_id}/edit"
DirectUrl(sheet_id) == <<"https://docs.google.com/spreadsheets/d/", sheet_id, "/edit">>

\* an attempted call of the spreadsheet service or of save_config: its
\* operation, whether it returned, and the spreadsheet it was made on
Call(op, ok, sheet) == [op |-> op, ok |-> ok, sheet |-> sheet]

\* no handler is returning
NoLast == [returning |-> FALSE, author |-> Bot, dm |-> FALSE, content |-> <<>>,
           replies |-> <<>>, calls |-> <<>>]

Init ==
    /\ config = EmptyMap
    /\ file = [valid |-> TRUE, user_emails |-> EmptyMap]
    /\ user_sheets = EmptyMap
    /\ first_time_users = {}
    /\ sheets = <<>>
    /\ tasks = EmptyBag
    /\ last = NoLast

(***************************************************************************)
(* The conditions of on_message on the message text.                       *)
(***************************************************************************)
\* a handler that goes on after every welcome
SwallowedNever(content) == FALSE

\* line 222: the text is no command, so the handler returns after the welcome
SwallowedAfterWelcome(content) ==
    /\ ~StartsWith(content, Bang)
    /\ ~\E cmd \in WelcomeKeywords : Contains(Lower(content), cmd)

\* lines 226-228: a setup command with an e-mail address
IsSetupCommand(content) ==
    /\ StartsWith(Lower(content), SetupPrefix)
    /\ LET parts == SplitMax1(Strip(content))
       IN  Len(parts) = 2 /\ Contains(parts[2], At)

SetupEmail(content) == Strip(SplitMax1(Strip(content))[2])

IsLinkCommand(content) == Lower(content) \in LinkCommands
IsSummaryCommand(content) == Lower(content) \in SummaryCommands
IsHelpCommand(content) == Lower(content) \in HelpCommands

\* the tokens of the expense branch: message.content.strip().split()
ExpenseParts(content) == Split(Strip(content))

\* What on_message computes from a text alone, evaluated once per text.
Parsed ==
    [content \in Texts |->
        [swallowed |-> SwallowedAfterWelcome(content),
         setup |-> IsSetupCommand(content),
         email |-> IF IsSetupCommand(content) THEN SetupEmail(content) ELSE <<>>,
         link |-> IsLinkCommand(content),
         summary |-> IsSummaryCommand(content),
         help |-> IsHelpCommand(content),
         parts |-> ExpenseParts(content),
         numeric |-> Len(ExpenseParts(content)) = 2 /\ IsFloat(ExpenseParts(content)[2]),
         amount |-> IF Len(ExpenseParts(content)) = 2 /\ IsFloat(ExpenseParts(content)[2])
                    THEN Float(ExpenseParts(content)[2]) ELSE 0]]

(***************************************************************************)
(* How a stretch of the handler ends: with its last reply sent and the     *)
(* coroutine returning, or suspended in the await of a reply that code     *)
(* follows.  No code follows the await of a last reply, so its completion  *)
(* (Return) is taken before any other step.                                *)
(***************************************************************************)
Finish(rest, author, dm, content, replies, calls) ==
    /\ tasks' = rest
    /\ last' = [returning |-> TRUE, author |-> author, dm |-> dm, content |-> content,
                replies |-> replies, calls |-> calls]

Suspend(rest, pc, author, content, user_sheet, replies, calls) ==
    /\ tasks' = rest (+) SetToBag({[pc |-> pc, user |-> author, content |-> content,
                                     user_sheet |-> user_sheet, replies |-> replies,
                                     calls |-> calls]})
    /\ last' = NoLast

(***************************************************************************)
(* setup_sheet_for_user and save_config                                    *)
(***************************************************************************)
\* a record whose URL lacks the "/edit" suffix
UserRecordNoEdit(user_email, sheet_id) ==
    [email |-> user_email, sheet_id |-> sheet_id,
     sheet_url |-> <<"https://docs.google.com/spreadsheets/d/", sheet_id>>]

\* the record setup_sheet_for_user stores in config["user_emails"][user_id]
UserRecord(user_email, sheet_id) ==
    [email |-> user_email, sheet_id |-> sheet_id, sheet_url |-> DirectUrl(sheet_id)]

SaveOutcomes == {"saved", "open_failed", "dump_failed"}

\* The file after save_config(cfg): rewritten in full; left alone when open()
\* raises; truncated when json.dump raises after open(CONFIG_FILE, 'w').
SaveConfig(cfg, outcome) ==
    CASE outcome = "saved" -> [valid |-> TRUE, user_emails |-> cfg]
      [] outcome = "open_failed" -> file
      [] outcome = "dump_failed" -> [valid |-> FALSE, user_emails |-> EmptyMap]

\* a setup that gives up when the grant to the user's e-mail address fails
SetupBranchStrictShare(rest, u, content, replies, calls) ==
    /\ Parsed[content].setup
    /\ UNCHANGED first_time_users
    /\ \/ /\ UNCHANGED <<config, file, user_sheets, sheets>>
          /\ Finish(rest, u, TRUE, content,
                    Append(replies, [kind |-> "setup_error"]),
                    Append(calls, Call("create", FALSE, None)))
       \/ /\ Len(sheets) < MaxSheets
          /\ \E now \in Times :
                sheets' = Append(sheets, [title |-> SheetName(u, now), rows |-> <<>>])
          /\ UNCHANGED <<config, file, user_sheets>>
          /\ Finish(rest, u, TRUE, content,
                    Append(replies, [kind |-> "setup_error"]),
                    calls \o <<Call("create", TRUE, Len(sheets) + 1),
                               Call("append_row", FALSE, Len(sheets) + 1)>>)
       \/ /\ Len(sheets) < MaxSheets
          /\ \E now \in Times :
                sheets' = Append(sheets, [title |-> SheetName(u, now), rows |-> <<Header>>])
          /\ UNCHANGED <<config, file, user_sheets>>
          /\ Finish(rest, u, TRUE, content,
                    Append(replies, [kind |-> "setup_error"]),
                    calls \o <<Call("create", TRUE, Len(sheets) + 1),
                               Call("append_row", TRUE, Len(sheets) + 1),
                               Call("share_user", FALSE, Len(sheets) + 1)>>)
       \/ /\ Len(sheets) < MaxSheets
          /\ \E now \in Times, publicOk \in BOOLEAN, outcome \in SaveOutcomes :
                LET sheet_id == Len(sheets) + 1
                    cfg == (u :> UserRecord(Parsed[content].email, sheet_id)) @@ config
                IN  /\ sheets' = Append(sheets, [title |-> SheetName(u, now),
                                                      rows |-> <<Header>>])
                    /\ config' = cfg
                    /\ file' = SaveConfig(cfg, outcome)
                    /\ user_sheets' = (u :> sheet_id) @@ user_sheets
                    /\ Finish(rest, u, TRUE, content,
                              Append(replies, [kind |-> "setup_complete",
                                               url |-> DirectUrl(sheet_id)]),
                              calls \o <<Call("create", TRUE, sheet_id),
                                         Call("append_row", TRUE, sheet_id),
                                         Call("share_user", TRUE, sheet_id),
                                         Call("share_anyone", publicOk, sheet_id),
                                         Call("save_config", outcome = "saved", None)>>)

\* lines 226-245: the setup branch, setup_sheet_for_user included
SetupBranch(rest, u, content, replies, calls) ==
    /\ Parsed[content].setup
    /\ UNCHANGED first_time_users
    /\ \/ \* client_gsheets.create raises
          /\ UNCHANGED <<config, file, user_sheets, sheets>>
          /\ Finish(rest, u, TRUE, content,
                    Append(replies, [kind |-> "setup_error"]),
                    Append(calls, Call("create", FALSE, None)))
       \/ \* the spreadsheet is created, the header append_row raises
          /\ Len(sheets) < MaxSheets
          /\ \E now \in Times :
                sheets' = Append(sheets, [title |-> SheetName(u, now), rows |-> <<>>])
          /\ UNCHANGED <<config, file, user_sheets>>
          /\ Finish(rest, u, TRUE, content,
                    Append(replies, [kind |-> "setup_error"]),
                    calls \o <<Call("create", TRUE, Len(sheets) + 1),
                               Call("append_row", FALSE, Len(sheets) + 1)>>)
       \/ \* created with its header; the grants and the save are best effort
          /\ Len(sheets) < MaxSheets
          /\ \E now \in Times, shareOk \in BOOLEAN, publicOk \in BOOLEAN,
                outcome \in SaveOutcomes :
                LET sheet_id == Len(sheets) + 1
                    user_email == Parsed[content].email
                    cfg == (u :> UserRecord(user_email, sheet_id)) @@ config
                    url == DirectUrl(sheet_id)
                IN  /\ sheets' = Append(sheets, [title |-> SheetName(u, now),
                                                      rows |-> <<Header>>])
                    /\ config' = cfg
                    /\ file' = SaveConfig(cfg, outcome)
                    /\ user_sheets' = (u :> sheet_id) @@ user_sheets
                    /\ Finish(rest, u, TRUE, content,
                              Append(replies, [kind |-> "setup_complete", url |-> url]),
                              calls \o <<Call("create", TRUE, sheet_id),
                                         Call("append_row", TRUE, sheet_id),
                                         Call("share_user", shareOk, sheet_id),
                                         Call("share_anyone", publicOk, sheet_id),
                                         Call("save_config", outcome = "saved", None)>>)

(***************************************************************************)
(* lines 247-260: the handle on_message resolves for the sender            *)
(***************************************************************************)
\* a resolution that falls back on a handle cached for any user
ResolveAnyCached(u, openOk) ==
    IF user_sheets # EmptyMap
    THEN LET v == IF u \in DOMAIN user_sheets THEN u ELSE CHOOSE w \in DOMAIN user_sheets : TRUE
         IN  [sheet |-> user_sheets[v], cache |-> user_sheets, calls |-> <<>>]
    ELSE IF u \in DOMAIN config
    THEN IF openOk /\ config[u].sheet_id \in 1..Len(sheets)
         THEN [sheet |-> config[u].sheet_id,
               cache |-> (u :> config[u].sheet_id) @@ user_sheets,
               calls |-> <<Call("open_by_key", TRUE, config[u].sheet_id)>>]
         ELSE [sheet |-> None, cache |-> user_sheets,
               calls |-> <<Call("open_by_key", FALSE, config[u].sheet_id)>>]
    ELSE [sheet |-> None, cache |-> user_sheets, calls |-> <<>>]

\* a resolution that opens the first spreadsheet instead of the stored identifier
ResolveFirstSheet(u, openOk) ==
    IF u \in DOMAIN user_sheets
    THEN [sheet |-> user_sheets[u], cache |-> user_sheets, calls |-> <<>>]
    ELSE IF u \in DOMAIN config
    THEN IF openOk
         THEN [sheet |-> 1, cache |-> (u :> 1) @@ user_sheets,
               calls |-> <<Call("open_by_key", TRUE, 1)>>]
         ELSE [sheet |-> None, cache |-> user_sheets,
               calls |-> <<Call("open_by_key", FALSE, 1)>>]
    ELSE [sheet |-> None, cache |-> user_sheets, calls |-> <<>>]

\* a resolution that opens the spreadsheet a second time when the first
\* open_by_key raises
ResolveRetry(u, openOk) ==
    IF u \in DOMAIN user_sheets
    THEN [sheet |-> user_sheets[u], cache |-> user_sheets, calls |-> <<>>]
    ELSE IF u \in DOMAIN config
    THEN IF openOk /\ config[u].sheet_id \in 1..Len(sheets)
         THEN [sheet |-> config[u].sheet_id,
               cache |-> (u :> config[u].sheet_id) @@ user_sheets,
               calls |-> <<Call("open_by_key", TRUE, config[u].sheet_id)>>]
         ELSE [sheet |-> None, cache |-> user_sheets,
               calls |-> <<Call("open_by_key", FALSE, config[u].sheet_id),
                           Call("open_by_key", FALSE, config[u].sheet_id)>>]
    ELSE [sheet |-> None, cache |-> user_sheets, calls |-> <<>>]

Resolve(u, openOk) ==
    IF u \in DOMAIN user_sheets
    THEN [sheet |-> user_sheets[u], cache |-> user_sheets, calls |-> <<>>]
    ELSE IF u \in DOMAIN config
    THEN IF openOk /\ config[u].sheet_id \in 1..Len(sheets)
         THEN [sheet |-> config[u].sheet_id,
               cache |-> (u :> config[u].sheet_id) @@ user_sheets,
               calls |-> <<Call("open_by_key", TRUE, config[u].sheet_id)>>]
         ELSE [sheet |-> None, cache |-> user_sheets,
               calls |-> <<Call("open_by_key", FALSE, config[u].sheet_id)>>]
    ELSE [sheet |-> None, cache |-> user_sheets, calls |-> <<>>]

\* a link reply that asks for the cached handle instead of the Config record
LinkReplyIfCached(u) ==
    IF u \in DOMAIN user_sheets
    THEN [kind |-> "link", url |-> config[u].sheet_url]
    ELSE [kind |-> "setup_prompt"]

\* lines 263-272
LinkReply(u) ==
    IF u \in DOMAIN config
    THEN [kind |-> "link", url |-> config[u].sheet_url]
    ELSE [kind |-> "setup_prompt"]

\* line 334: f"Logged: {category} - Rs {amount}", amount being the parsed float
LoggedReply(category, amount) ==
    [kind |-> "logged", category |-> category, amount |-> FloatStr(amount)]

\* a row stamped with the day alone
ExpenseRowDayOnly(now, category, amount) == <<<<now.day>>, category, amount>>

\* a row that lacks its date
ExpenseRowNoDate(now, category, amount) == <<category, amount>>

\* line 331: the row handed to append_row
ExpenseRow(now, category, amount) == <<StrfTime(now), category, amount>>

\* lines 263-338: what follows the handle resolution
Dispatch(rest, u, content, replies, calls, res) ==
    /\ UNCHANGED <<config, file, first_time_users>>
    /\ user_sheets' = res.cache
    /\ \/ /\ Parsed[content].link
          /\ UNCHANGED sheets
          /\ Finish(rest, u, TRUE, content, Append(replies, LinkReply(u)), calls \o res.calls)
       \/ /\ ~Parsed[content].link
          /\ Parsed[content].summary
          /\ UNCHANGED sheets
          /\ IF res.sheet = None
             THEN Finish(rest, u, TRUE, content,
                         Append(replies, [kind |-> "need_setup"]), calls \o res.calls)
             ELSE Suspend(rest, "generating", u, content, res.sheet,
                          Append(replies, [kind |-> "generating"]), calls \o res.calls)
       \/ /\ ~Parsed[content].link
          /\ ~Parsed[content].summary
          /\ Parsed[content].help
          /\ UNCHANGED sheets
          /\ Finish(rest, u, TRUE, content, Append(replies, [kind |-> "help"]), calls \o res.calls)
       \/ /\ ~Parsed[content].link
          /\ ~Parsed[content].summary
          /\ ~Parsed[content].help
          /\ res.sheet = None
          /\ UNCHANGED sheets
          /\ Finish(rest, u, TRUE, content,
                    Append(replies, [kind |-> "need_setup"]), calls \o res.calls)
       \/ /\ ~Parsed[content].link
          /\ ~Parsed[content].summary
          /\ ~Parsed[content].help
          /\ res.sheet # None
          /\ LET parts == Parsed[content].parts
             IN  IF Len(parts) # 2
                 THEN /\ UNCHANGED sheets
                      /\ Finish(rest, u, TRUE, content,
                                Append(replies, [kind |-> "format_error"]),
                                calls \o res.calls)
                 ELSE IF ~Parsed[content].numeric
                 THEN \* float() raises ValueError, caught at line 335
                      /\ UNCHANGED sheets
                      /\ Finish(rest, u, TRUE, content,
                                Append(replies, [kind |-> "error",
                                                 text |-> <<"could not convert string to float",
                                                            parts[2]>>]),
                                calls \o res.calls)
                 ELSE \/ \* append_row raises, caught at line 335
                         /\ UNCHANGED sheets
                         /\ Finish(rest, u, TRUE, content,
                                   Append(replies, [kind |-> "error",
                                                    text |-> <<"append_row">>]),
                                   calls \o res.calls
                                         \o <<Call("append_row", FALSE, res.sheet)>>)
                      \/ /\ Len(sheets[res.sheet].rows) <= MaxRows
                         /\ \E now \in Times :
                               sheets' = [sheets EXCEPT ![res.sheet].rows =
                                   Append(@, ExpenseRow(now, parts[1], Parsed[content].amount))]
                         /\ Finish(rest, u, TRUE, content,
                                   Append(replies, LoggedReply(parts[1], Parsed[content].amount)),
                                   calls \o res.calls
                                         \o <<Call("append_row", TRUE, res.sheet)>>)

\* lines 225-338: the handler from the setup check on
Body(rest, u, content, replies, calls) ==
    \/ SetupBranch(rest, u, content, replies, calls)
    \/ /\ ~Parsed[content].setup
       /\ \E openOk \in BOOLEAN :
             Dispatch(rest, u, content, replies, calls, Resolve(u, openOk))

(***************************************************************************)
(* on_message, one action per stretch of code between two awaits.          *)
(***************************************************************************)
WelcomeReply == [kind |-> "welcome"]

\* a newly dispatched coroutine starts to run
CanStart ==
    /\ last = NoLast
    /\ BagCardinality(tasks) < MaxInFlight

\* a handler that tests the author alone and not the channel
ReceiveIgnoredBotOnly(author, dm, content) ==
    /\ CanStart
    /\ author = Bot \/ ~dm
    /\ IF author = Bot
       THEN /\ UNCHANGED <<config, file, user_sheets, first_time_users, sheets>>
            /\ Finish(tasks, author, dm, content, <<>>, <<>>)
       ELSE /\ UNCHANGED <<config, file, user_sheets, first_time_users, sheets>>
            /\ Finish(tasks, author, dm, content, <<[kind |-> "need_setup"]>>, <<>>)

\* lines 199-203: a message of the bot itself, or one outside a direct channel
ReceiveIgnored(author, dm, content) ==
    /\ CanStart
    /\ author = Bot \/ ~dm
    /\ UNCHANGED <<config, file, user_sheets, first_time_users, sheets>>
    /\ Finish(tasks, author, dm, content, <<>>, <<>>)

\* a first contact that does not record the sender before the welcome is awaited
ReceiveFirstContactUnrecorded(author, content) ==
    /\ CanStart
    /\ author # Bot
    /\ author \notin first_time_users /\ author \notin DOMAIN config
    /\ UNCHANGED <<config, file, user_sheets, sheets, first_time_users>>
    /\ Suspend(tasks, "welcome", author, content, None, <<WelcomeReply>>, <<>>)

\* lines 204-219: first contact, up to the await of the welcome
ReceiveFirstContact(author, content) ==
    /\ CanStart
    /\ author # Bot
    /\ author \notin first_time_users /\ author \notin DOMAIN config
    /\ first_time_users' = first_time_users \cup {author}
    /\ UNCHANGED <<config, file, user_sheets, sheets>>
    /\ Suspend(tasks, "welcome", author, content, None, <<WelcomeReply>>, <<>>)

\* lines 204-338 for a sender already welcomed or configured
ReceiveKnown(author, content) ==
    /\ CanStart
    /\ author # Bot
    /\ ~(author \notin first_time_users /\ author \notin DOMAIN config)
    /\ Body(tasks, author, content, <<>>, <<>>)

\* lines 220-338: the welcome is sent
WelcomeSent(t) ==
    /\ last = NoLast
    /\ BagIn(t, tasks)
    /\ t.pc = "welcome"
    /\ LET rest == tasks (-) SetToBag({t})
       IN  IF Parsed[t.content].swallowed
           THEN /\ UNCHANGED <<config, file, user_sheets, first_time_users, sheets>>
                /\ Finish(rest, t.user, TRUE, t.content, t.replies, t.calls)
           ELSE Body(rest, t.user, t.content, t.replies, t.calls)

\* lines 284-286: the acknowledgment is sent; get_expense_summary on the handle
\* resolved before the await, its result sent as the last reply
GeneratingSent(t) ==
    /\ last = NoLast
    /\ BagIn(t, tasks)
    /\ t.pc = "generating"
    /\ UNCHANGED <<config, file, user_sheets, first_time_users, sheets>>
    /\ \E fetchOk \in BOOLEAN :
          LET summary == IF fetchOk
                         THEN SummaryOf(GetAllRecords(sheets[t.user_sheet].rows), DefaultLimit)
                         ELSE [kind |-> "summary_error", text |-> "get_all_records"]
          IN  Finish(tasks (-) SetToBag({t}), t.user, TRUE, t.content,
                     Append(t.replies, summary),
                     Append(t.calls, Call("get_all_records", fetchOk, t.user_sheet)))

\* the await of a handler's last reply completes and the coroutine returns
Return ==
    /\ last # NoLast
    /\ last' = NoLast
    /\ UNCHANGED <<config, file, user_sheets, first_time_users, sheets, tasks>>

\* load_config when CONFIG_FILE exists: its content, or the default
\* configuration when it does not parse
LoadConfig(f) == IF f.valid THEN f.user_emails ELSE EmptyMap

\* The process is stopped and started again (lines 51, 52, 195): the file is
\* loaded, the handle cache and the welcomed set start empty, and the
\* coroutines of the stopped process are gone.
Restart ==
    /\ config' = LoadConfig(file)
    /\ user_sheets' = EmptyMap
    /\ first_time_users' = {}
    /\ tasks' = EmptyBag
    /\ last' = NoLast
    /\ UNCHANGED <<file, sheets>>

\* the steps of the process for senders in U writing texts of T
Step(U, T) ==
    \/ \E author \in U \cup {Bot}, dm \in BOOLEAN, content \in T \cap IgnoredTexts :
          ReceiveIgnored(author, dm, content)
    \/ \E author \in U, content \in T : ReceiveFirstContact(author, content)
    \/ \E author \in U, content \in T : ReceiveKnown(author, content)
    \/ \E t \in BagToSet(tasks) : WelcomeSent(t)
    \/ \E t \in BagToSet(tasks) : GeneratingSent(t)
    \/ Return
    \/ Restart

Next == Step(Users, CoreTexts)

Spec == Init /\ [][Next]_vars

TextNext == Step({"u1"}, Texts)

TextSpec == Init /\ [][TextNext]_vars

(***************************************************************************)
(* get_expense_summary on the sheets a user can have filled: u1 is set up, *)
(* has logged up to MaxRecords expenses and asks for the summary.          *)
(***************************************************************************)
SummaryCategories == {<<"F","o","o","d">>, <<"G","a","s">>}

\* amounts in hundredths: 0 ("Food 0"), 2.5, 5.0
SummaryAmounts == {0, 250, 500}

SummaryRows ==
    {ExpenseRow(now, c, a) : now \in Times, c \in SummaryCategories, a \in SummaryAmounts}

SummaryInit ==
    /\ \E n \in 0..MaxRecords, now \in Times : \E rs \in [1..n -> SummaryRows] :
          sheets = <<[title |-> SheetName("u1", now), rows |-> <<Header>> \o rs]>>
    /\ config = ("u1" :> UserRecord(<<"a", "@", "b">>, 1))
    /\ file = [valid |-> TRUE, user_emails |-> config]
    /\ user_sheets = ("u1" :> 1)
    /\ first_time_users = {}
    /\ tasks = EmptyBag
    /\ last = NoLast

SummaryNext ==
    \/ ReceiveKnown("u1", TSummary)
    \/ \E t \in BagToSet(tasks) : GeneratingSent(t)
    \/ Return

SummarySpec == SummaryInit /\ [][SummaryNext]_vars

(***************************************************************************)
(* What the properties below read from the state.                          *)
(***************************************************************************)
\* the last reply of a message
LastReply(m) == m.replies[Len(m.replies)]

\* m is a direct message of a user whose handler has sent its last reply
Handled(m) == m.returning /\ m.dm /\ m.author \in Users

\* the handler of m ended in the default branch, lines 318-338
ReachedExpense(m) ==
    /\ m.replies # <<>>
    /\ LastReply(m).kind \in {"logged", "error", "format_error"}

\* the text is two whitespace-separated tokens, the second one numeric
TwoTokensNumeric(content) ==
    /\ Len(Split(Strip(content))) = 2
    /\ IsFloat(Split(Strip(content))[2])

Made(m, op, ok) == \E i \in 1..Len(m.calls) : m.calls[i].op = op /\ m.calls[i].ok = ok

(***************************************************************************)
(* C1.  As stated: a valid "Category Amount" message that reaches the      *)
(* default branch appends exactly one row [timestamp, category, amount]    *)
(* to the sender's sheet and to no other, and the reply echoes the         *)
(* category and the amount as typed.                                       *)
(***************************************************************************)
C1_Original ==
    [][(Handled(last') /\ ReachedExpense(last') /\ TwoTokensNumeric(last'.content))
        => LET m == last'
               toks == Split(Strip(m.content))
           IN  /\ m.author \in DOMAIN config
               /\ \E now \in Times :
                     sheets' = [sheets EXCEPT ![config[m.author].sheet_id].rows =
                                   Append(@, <<StrfTime(now), toks[1], Float(toks[2])>>)]
               /\ LastReply(m).kind = "logged"
               /\ LastReply(m).category = toks[1]
               /\ LastReply(m).amount = toks[2]]_vars

\* C1 as amended: when append_row returns, exactly one row [timestamp,
\* category, parsed amount] is appended to the sheet Config maps the sender
\* to, no other row of any sheet changes, and the reply echoes the category
\* as typed and the amount as the parsed float prints ("5" as "5.0"); when
\* append_row raises, no row is appended and the reply is an error text.
C1_ExpenseLogged ==
    [][(Handled(last') /\ ReachedExpense(last') /\ TwoTokensNumeric(last'.content))
        => LET m == last'
               toks == Split(Strip(m.content))
           IN  /\ m.author \in DOMAIN config
               /\ IF Made(m, "append_row", TRUE)
                  THEN /\ \E now \in Times :
                             sheets' = [sheets EXCEPT ![config[m.author].sheet_id].rows =
                                          Append(@, <<StrfTime(now), toks[1], Float(toks[2])>>)]
                       /\ LastReply(m) = [kind |-> "logged", category |-> toks[1],
                                          amount |-> FloatStr(Float(toks[2]))]
                       /\ m.content = TFood5 => LastReply(m).amount = <<"5", ".", "0">>
                  ELSE /\ sheets' = sheets
                       /\ Made(m, "append_row", FALSE)
                       /\ LastReply(m).kind = "error"]_vars

\* "Food 5" is logged: its row is the last of the sender's sheet, the reply says 5.0
C1_Witness ==
    /\ Handled(last)
    /\ last.content = TFood5
    /\ LastReply(last) = [kind |-> "logged", category |-> <<"F", "o", "o", "d">>,
                          amount |-> <<"5", ".", "0">>]
    /\ LET rows == sheets[config[last.author].sheet_id].rows
       IN  rows[Len(rows)][2] = <<"F", "o", "o", "d">> /\ rows[Len(rows)][3] = 500

(***************************************************************************)
(* C2.  A message that reaches the default branch and is not two tokens    *)
(* with a numeric second token appends no row and is answered with the     *)
(* format-usage hint.                                                       *)
(***************************************************************************)
C2_Claim ==
    [][(Handled(last') /\ ReachedExpense(last') /\ ~TwoTokensNumeric(last'.content))
        => /\ sheets' = sheets
           /\ LastReply(last').kind = "format_error"]_vars

(***************************************************************************)
(* C3.  As stated: the first message of a user who is neither welcomed nor *)
(* configured, when it is no recognized command, is answered with the      *)
(* welcome alone and has no other effect, texts starting with "!" and      *)
(* texts containing "help" or "setup" included.                            *)
(***************************************************************************)
RecognizedCommand(content) ==
    \/ StartsWith(Lower(content), SetupPrefix)
    \/ Lower(content) \in LinkCommands \cup SummaryCommands \cup HelpCommands

Welcomed(m) == m.replies # <<>> /\ m.replies[1].kind = "welcome"

OnlyWelcomed(m) ==
    /\ m.replies = <<[kind |-> "welcome"]>>
    /\ m.calls = <<>>
    /\ UNCHANGED <<config, file, user_sheets, sheets>>

PlainText(content) ==
    /\ ~StartsWith(content, <<"!">>)
    /\ ~Contains(Lower(content), <<"h", "e", "l", "p">>)
    /\ ~Contains(Lower(content), <<"s", "e", "t", "u", "p">>)

CanonicalUrl(id) == <<"https://docs.google.com/spreadsheets/d/", id, "/edit">>

SetupDone(m) == Handled(m) /\ LastReply(m).kind = "setup_complete"

C4_UrlCanonical ==
    \A u \in DOMAIN config : config[u].sheet_url = CanonicalUrl(config[u].sheet_id)

C4_SetupStep ==
    SetupDone(last')
    => LET m == last'
           id == Len(sheets')
       IN  /\ Len(sheets') = Len(sheets) + 1
           /\ m.author \in DOMAIN config'
           /\ config'[m.author] =
                 [email |-> Strip(SplitMax1(Strip(m.content))[2]),
                  sheet_id |-> id, sheet_url |-> CanonicalUrl(id)]
           /\ m.content \in {TSetup, TSetupUpper} => config'[m.author].email = <<"a", "@", "b">>
           /\ LastReply(m).url = CanonicalUrl(id)

C4_SetupRecord == []C4_UrlCanonical /\ [][C4_SetupStep]_vars

\* u1 has run "!setup a@b" a second time and is mapped to spreadsheet 2
C4_Witness ==
    /\ SetupDone(last)
    /\ last.author = "u1"
    /\ config["u1"] = [email |-> <<"a", "@", "b">>, sheet_id |-> 2,
                       sheet_url |-> CanonicalUrl(2)]
    /\ sheets[1].title[2] = "u1"

(***************************************************************************)
(* C5.  After a second successful setup of a user, the Config record is    *)
(* that of the new spreadsheet, and every later expense row, link reply    *)
(* and summary of that user uses the new spreadsheet: the replaced one     *)
(* gets no further row and is not read again.                              *)
(***************************************************************************)
\* the spreadsheets a successful setup of u created: titled for u, with a header
SetUpSheets(u) ==
    {i \in 1..Len(sheets) : sheets[i].title[2] = u /\ sheets[i].rows # <<>>}

Newest(u) == CHOOSE i \in SetUpSheets(u) : \A j \in SetUpSheets(u) : j <= i

C5_Claim ==
    (Handled(last) /\ Cardinality(SetUpSheets(last.author)) >= 2 /\ ~Made(last, "create", TRUE)
        /\ ~Made(last, "create", FALSE))
    => /\ \A i \in 1..Len(last.calls) :
             last.calls[i].op \in {"append_row", "get_all_records"}
             => last.calls[i].sheet = Newest(last.author)
       /\ LastReply(last).kind = "link"
             => LastReply(last).url = CanonicalUrl(Newest(last.author))

(***************************************************************************)
(* C6.  A message that begins with "!setup " and whose remainder is not    *)
(* exactly one token containing "@" runs no provisioning, changes no       *)
(* Config, appends no expense row and is answered with a usage hint or a   *)
(* setup prompt, whether or not the sender is configured.                  *)
(***************************************************************************)
MalformedSetup(content) ==
    /\ StartsWith(Lower(content), SetupPrefix)
    /\ ~(Len(Split(content)) = 2 /\ Contains(Split(content)[2], <<"@">>))

C6_Claim ==
    [][(Handled(last') /\ MalformedSetup(last'.content))
        => /\ ~Made(last', "create", TRUE) /\ ~Made(last', "create", FALSE)
           /\ config' = config /\ file' = file /\ sheets' = sheets
           /\ LastReply(last').kind \in {"format_error", "need_setup", "setup_prompt"}]_vars

(***************************************************************************)
(* C7.  Every direct message of a user has at least one reply when its     *)
(* handler finishes, whichever calls of the spreadsheet service and of     *)
(* save_config fail, and no operation is attempted twice for one message.  *)
(***************************************************************************)
C7_AlwaysReplies ==
    Handled(last)
    => /\ Len(last.replies) >= 1
       /\ \A i, j \in 1..Len(last.calls) : i # j => last.calls[i].op # last.calls[j].op

\* after a restart the stored spreadsheet cannot be opened: one attempt, one reply
C7_Witness ==
    /\ Handled(last)
    /\ last.content = TFood5
    /\ last.calls = <<[op |-> "open_by_key", ok |-> FALSE, sheet |-> 1]>>
    /\ last.replies = <<[kind |-> "need_setup"]>>

(***************************************************************************)
(* C8.  The summary of a sheet without data rows is "No expenses recorded  *)
(* yet."; of any other sheet it is a report whose total is the sum of the  *)
(* amounts and whose category section has one entry per distinct category  *)
(* with its sum and share, by non-increasing amount, adding up to the      *)
(* total.                                                                   *)
(***************************************************************************)
Abs(x) == IF x < 0 THEN 0 - x ELSE x

RECURSIVE SumOf(_, _)
SumOf(seq, n) == IF n = 0 THEN 0 ELSE seq[n] + SumOf(seq, n - 1)

ReportOf(records, r) ==
    LET amounts == [i \in 1..Len(records) |-> records[i].Amount]
        cats == {records[i].Category : i \in 1..Len(records)}
        bc == r.by_category
        AmountOf(c) == SumOf([i \in 1..Len(records) |->
                                IF records[i].Category = c THEN records[i].Amount ELSE 0],
                             Len(records))
    IN  /\ r.kind = "report"
        /\ r.total = SumOf(amounts, Len(amounts))
        /\ Len(bc) = Cardinality(cats)
        /\ {bc[i].category : i \in 1..Len(bc)} = cats
        /\ \A i \in 1..Len(bc) : bc[i].amount = AmountOf(bc[i].category)
        /\ \A i \in 1..Len(bc) :
              2 * Abs(bc[i].percent * r.total - bc[i].amount * 1000) <= Abs(r.total)
        /\ \A i, j \in 1..Len(bc) : i < j => bc[i].amount >= bc[j].amount
        /\ SumOf([i \in 1..Len(bc) |-> bc[i].amount], Len(bc)) = r.total

C8_Claim ==
    (Handled(last) /\ Made(last, "get_all_records", TRUE))
    => LET call == last.calls[Len(last.calls)]
           records == GetAllRecords(sheets[call.sheet].rows)
       IN  IF records = <<>>
           THEN LastReply(last) = [kind |-> "no_expenses"]
           ELSE ReportOf(records, LastReply(last))

(***************************************************************************)
(* C9.  A link command is answered with the URL of the sender's Config     *)
(* record when there is one and with the setup prompt otherwise, whether   *)
(* or not a handle was resolved, and it appends no row and leaves Config   *)
(* as it is.                                                                *)
(***************************************************************************)
C9_Link ==
    [][(Handled(last')
        /\ Lower(last'.content) \in {<<"!", "s", "h", "e", "e", "t">>, <<"!", "u", "r", "l">>,
                                     <<"!", "l", "i", "n", "k">>})
        => /\ config' = config /\ file' = file /\ sheets' = sheets
           /\ ~Made(last', "append_row", TRUE) /\ ~Made(last', "append_row", FALSE)
           /\ LastReply(last') =
                 IF last'.author \in DOMAIN config
                 THEN [kind |-> "link", url |-> config[last'.author].sheet_url]
                 ELSE [kind |-> "setup_prompt"]]_vars

\* "!LINK" after a restart: the spreadsheet cannot be opened, the stored URL is sent
C9_Witness ==
    /\ Handled(last)
    /\ last.content = TLinkUpper
    /\ Made(last, "open_by_key", FALSE)
    /\ last.author \notin DOMAIN user_sheets
    /\ last.replies = <<[kind |-> "link", url |-> CanonicalUrl(1)]>>

(***************************************************************************)
(* C10.  A message of the bot itself, and a message outside a direct       *)
(* channel, gets no reply and leaves Config, the config file, the handle   *)
(* cache, the welcomed set, the spreadsheets and the suspended handlers    *)
(* as they are.                                                             *)
(***************************************************************************)
C10_Ignored ==
    [][(last'.returning /\ (last'.author = Bot \/ ~last'.dm))
        => /\ last'.replies = <<>>
           /\ last'.calls = <<>>
           /\ UNCHANGED <<config, file, user_sheets, first_time_users, sheets, tasks>>]_vars

\* u1, set up and not welcomed in this process, writes "!setup a@b" in a channel
C10_Witness ==
    /\ last.returning
    /\ last.author = "u1" /\ ~last.dm /\ last.content = TSetup
    /\ last.replies = <<>>
    /\ "u1" \in DOMAIN config /\ "u1" \notin first_time_users

(***************************************************************************)
(* C11.  A setup fails exactly when the creation of the spreadsheet or the *)
(* append of the header row fails.  A failed grant or a failed save leaves *)
(* it successful: Config and the handle cache hold the new spreadsheet and *)
(* the confirmation with its URL is sent.  A failed setup leaves Config,   *)
(* the config file and the handle cache as they were and is answered with  *)
(* the setup error.                                                         *)
(***************************************************************************)
\* the handler of m went into setup_sheet_for_user
RanSetup(m) == Handled(m) /\ (Made(m, "create", TRUE) \/ Made(m, "create", FALSE))

C11_SetupOutcome ==
    [][RanSetup(last')
        => LET m == last'
               id == Len(sheets')
           IN  IF Made(m, "create", FALSE) \/ Made(m, "append_row", FALSE)
               THEN /\ LastReply(m) = [kind |-> "setup_error"]
                    /\ config' = config /\ file' = file /\ user_sheets' = user_sheets
               ELSE /\ LastReply(m) = [kind |-> "setup_complete", url |-> CanonicalUrl(id)]
                    /\ Len(sheets') = Len(sheets) + 1
                    /\ m.author \in DOMAIN config' /\ config'[m.author].sheet_id = id
                    /\ m.author \in DOMAIN user_sheets' /\ user_sheets'[m.author] = id
                    /\ \E i \in 1..Len(m.calls) : m.calls[i].op = "share_user"
                    /\ \E i \in 1..Len(m.calls) : m.calls[i].op = "share_anyone"
                    /\ \E i \in 1..Len(m.calls) : m.calls[i].op = "save_config"]_vars

\* both grants and the save fail, and the setup of u1 is confirmed all the same
C11_Witness ==
    /\ RanSetup(last)
    /\ last.author = "u1"
    /\ Made(last, "share_user", FALSE) /\ Made(last, "share_anyone", FALSE)
    /\ Made(last, "save_config", FALSE)
    /\ LastReply(last).kind = "setup_complete"
    /\ config["u1"].sheet_id = Len(sheets) /\ user_sheets["u1"] = Len(sheets)

\* the header of u1's second spreadsheet cannot be written: u1 keeps spreadsheet 1
C11_FailedWitness ==
    /\ RanSetup(last)
    /\ last.author = "u1"
    /\ Made(last, "append_row", FALSE)
    /\ LastReply(last).kind = "setup_error"
    /\ Len(sheets) = 2 /\ sheets[2].rows = <<>>
    /\ config["u1"].sheet_id = 1 /\ user_sheets["u1"] = 1

(***************************************************************************)
(* C12.  In one process lifetime a user is sent the welcome at most once,  *)
(* and only when the user is neither in the welcomed set nor in Config as  *)
(* the handling starts, also when a second message of the user is handled  *)
(* while the welcome of the first is being sent.  As steps: a welcome      *)
(* starts to be sent only to a user outside both, who is put into the      *)
(* welcomed set in the same step; the welcomed set loses a member only     *)
(* when the process restarts; a message that ends with a welcome among its *)
(* replies has it once, as its first reply, and is one of the handlers     *)
(* that started with it; and no user ever has two such handlers.           *)
(***************************************************************************)
\* the number of suspended handlers of u that have sent, or are sending, the welcome
WelcomesInFlight(bag, u) ==
    BagCardinality([t \in {x \in BagToSet(bag) : x.user = u /\ x.replies[1].kind = "welcome"}
                      |-> CopiesIn(t, bag)])

C12_WelcomeStep ==
    /\ \A u \in Users :
          WelcomesInFlight(tasks', u) > WelcomesInFlight(tasks, u)
          => /\ WelcomesInFlight(tasks, u) = 0 /\ WelcomesInFlight(tasks', u) = 1
             /\ u \notin first_time_users /\ u \notin DOMAIN config
             /\ u \in first_time_users'
    /\ ~(first_time_users \subseteq first_time_users')
          => first_time_users' = {} /\ user_sheets' = EmptyMap /\ tasks' = EmptyBag
    /\ (last'.returning /\ \E i \in 1..Len(last'.replies) : last'.replies[i].kind = "welcome")
          => /\ last'.replies[1].kind = "welcome"
             /\ \A i \in 2..Len(last'.replies) : last'.replies[i].kind # "welcome"
             /\ WelcomesInFlight(tasks', last'.author) = WelcomesInFlight(tasks, last'.author) - 1

C12_InFlight ==
    \A u \in Users :
        /\ WelcomesInFlight(tasks, u) <= 1
        /\ WelcomesInFlight(tasks, u) = 1 => u \in first_time_users

C12_WelcomeOnce == []C12_InFlight /\ [][C12_WelcomeStep]_vars

\* u1's second message is answered, without a welcome, while the welcome of
\* the first is being sent
C12_Witness ==
    /\ Handled(last)
    /\ last.author = "u1"
    /\ last.replies = <<[kind |-> "need_setup"]>>
    /\ WelcomesInFlight(tasks, "u1") = 1
    /\ "u1" \notin DOMAIN config

(***************************************************************************)
(* C13.  Every spreadsheet Config maps a user to has the header            *)
(* ["Date", "Category", "Amount"] as its first row, every later row has    *)
(* three fields: the date and time, the category, a numeric amount; and a  *)
(* step only appends: it leaves every spreadsheet that exists in place,    *)
(* with its title and with the rows it has as the first rows it has after  *)
(* the step.                                                                *)
(***************************************************************************)
IsExpenseRow(row) ==
    /\ Len(row) = 3
    /\ \E now \in Times : row[1] = <<now.day, " ", now.time>>
    /\ Len(row[2]) >= 1
    /\ \A i \in 1..Len(row[2]) : row[2][i] # " "
    /\ row[3] \in Int

C13_Rows ==
    \A u \in DOMAIN config :
        /\ config[u].sheet_id \in 1..Len(sheets)
        /\ LET rows == sheets[config[u].sheet_id].rows
           IN  /\ Len(rows) >= 1
               /\ rows[1] = <<"Date", "Category", "Amount">>
               /\ \A i \in 2..Len(rows) : IsExpenseRow(rows[i])

C13_AppendOnly ==
    /\ Len(sheets') >= Len(sheets)
    /\ \A i \in 1..Len(sheets) :
          /\ sheets'[i].title = sheets[i].title
          /\ Len(sheets'[i].rows) >= Len(sheets[i].rows)
          /\ SubSeq(sheets'[i].rows, 1, Len(sheets[i].rows)) = sheets[i].rows

C13_Sheets == []C13_Rows /\ [][C13_AppendOnly]_vars

\* "!setup 5" of the set-up user u1 has been logged below the header
C13_Witness ==
    /\ Handled(last)
    /\ last.author = "u1" /\ last.content = TSetupNum
    /\ "u1" \in DOMAIN config
    /\ LET rows == sheets[config["u1"].sheet_id].rows
       IN  /\ Len(rows) = 2
           /\ rows[2] = <<<<"2024-01-01", " ", "10:00:00">>, <<"!", "s", "e", "t", "u", "p">>, 500>>

(***************************************************************************)
(* C14.  For a sheet with n data rows and a limit L >= 1 the recent        *)
(* section of the summary lists min(L, n) rows: the last min(L, n) rows of *)
(* the sheet, the most recent first, each once.  Read on the summary the   *)
(* handler sends (L = 5) and on get_expense_summary for every L from 1 to  *)
(* n + 1.                                                                   *)
(***************************************************************************)
MinOf(a, b) == IF a <= b THEN a ELSE b

\* the lines of the recent section the claim requires: row n first, then n - 1, ...
ExpectedRecent(records, L) ==
    [i \in 1..MinOf(L, Len(records)) |->
        [date |-> <<records[Len(records) + 1 - i].Date[1]>>,
         category |-> records[Len(records) + 1 - i].Category,
         amount |-> records[Len(records) + 1 - i].Amount]]

ListsRecent(summary, records, L) ==
    Len(records) >= 1 => summary.kind = "report" /\ summary.recent = ExpectedRecent(records, L)

C14_Claim ==
    (Handled(last) /\ Made(last, "get_all_records", TRUE))
    => LET call == last.calls[Len(last.calls)]
           records == GetAllRecords(sheets[call.sheet].rows)
       IN  /\ ListsRecent(LastReply(last), records, 5)
           /\ \A L \in 1..(Len(records) + 1) : ListsRecent(SummaryOf(records, L), records, L)

(***************************************************************************)
(* C15.  Config changes only in a successful provisioning (the reload of a *)
(* restarted process aside), and whenever a handler has finished the       *)
(* config file holds exactly the Config in memory.                         *)
(***************************************************************************)
\* the step is the start of a new process
IsRestart ==
    /\ config' = LoadConfig(file)
    /\ user_sheets' = EmptyMap /\ first_time_users' = {} /\ tasks' = EmptyBag
    /\ ~last'.returning

C15_FileIsConfig ==
    (last.returning /\ last.author \in Users /\ last.dm)
    => file = [valid |-> TRUE, user_emails |-> config]

C15_OnlySetupMutates ==
    config' # config => (SetupDone(last') \/ IsRestart)

C15_Claim == []C15_FileIsConfig /\ [][C15_OnlySetupMutates]_vars

(***************************************************************************)
(* C16.  A restart keeps the record of every user who completed setup and  *)
(* forgets who was welcomed: a set-up user is not welcomed again and the   *)
(* next valid expense message, the spreadsheet service answering, is       *)
(* appended to the spreadsheet the record named before the restart, whose  *)
(* handle is opened by the stored identifier and cached; a user without a  *)
(* record is welcomed again.                                                *)
(***************************************************************************)
\* the text is logged as an expense when the sender has a sheet
IsExpenseText(content) ==
    /\ TwoTokensNumeric(content)
    /\ ~StartsWith(Lower(content), SetupPrefix) \/ ~Contains(content, <<"@">>)
    /\ Lower(content) \notin LinkCommands \cup SummaryCommands \cup HelpCommands

C16_RestartStep ==
    IsRestart
    => /\ first_time_users' = {}
       /\ \A u \in Users :
             IF u \in DOMAIN config
             THEN u \in DOMAIN config' /\ config'[u] = config[u]
             ELSE u \notin DOMAIN config'

\* the first expense message of a set-up user in a new process
C16_ReopenStep ==
    (/\ Handled(last') /\ IsExpenseText(last'.content)
     /\ last'.author \in DOMAIN config /\ last'.author \notin DOMAIN user_sheets
     /\ ~Made(last', "open_by_key", FALSE) /\ ~Made(last', "append_row", FALSE))
    => LET m == last'
           id == config[m.author].sheet_id
       IN  /\ ~Welcomed(m)
           /\ m.calls = <<[op |-> "open_by_key", ok |-> TRUE, sheet |-> id],
                          [op |-> "append_row", ok |-> TRUE, sheet |-> id]>>
           /\ Len(sheets'[id].rows) = Len(sheets[id].rows) + 1
           /\ \A i \in 1..Len(sheets) : i # id => sheets'[i] = sheets[i]
           /\ user_sheets' = (m.author :> id) @@ user_sheets

C16_Claim == [][C16_RestartStep /\ C16_ReopenStep]_vars

(***************************************************************************)
(* C17.  Every user in the handle cache has a Config record, and the       *)
(* cached handle is of the spreadsheet that record names; so an expense    *)
(* row is appended to the spreadsheet whose URL the link command gives.    *)
(***************************************************************************)
C17_Cache ==
    \A u \in DOMAIN user_sheets :
        /\ u \in DOMAIN config
        /\ user_sheets[u] = config[u].sheet_id

C17_AppendStep ==
    (Handled(last') /\ LastReply(last').kind = "logged")
    => LET m == last'
           call == m.calls[Len(m.calls)]
       IN  /\ call = [op |-> "append_row", ok |-> TRUE, sheet |-> user_sheets'[m.author]]
           /\ sheets'[call.sheet].rows # sheets[call.sheet].rows
           /\ m.author \in DOMAIN config'
           /\ config'[m.author].sheet_url = CanonicalUrl(call.sheet)

C17_CacheIsConfig == []C17_Cache /\ [][C17_AppendStep]_vars

\* after a second setup and a restart, u1's expense goes to the reopened spreadsheet 2
C17_Witness ==
    /\ Handled(last)
    /\ last.author = "u1"
    /\ last.calls = <<[op |-> "open_by_key", ok |-> TRUE, sheet |-> 2],
                      [op |-> "append_row", ok |-> TRUE, sheet |-> 2]>>
    /\ user_sheets["u1"] = 2 /\ config["u1"].sheet_id = 2
    /\ sheets[1].title[2] = "u1"

(***************************************************************************)
(* C18.  A step of the handler of a message of user A leaves the Config    *)
(* record, the cached handle, the welcomed status and the spreadsheets of  *)
(* every other user B as they are, and an expense row is appended only     *)
(* for a sender who has a Config record.                                   *)
(***************************************************************************)
\* the users whose handler takes the step: the author of the message that
\* finishes, or the user of the handler that is suspended anew
Actors ==
    IF last'.returning THEN {last'.author}
    ELSE {t.user : t \in {x \in BagToSet(tasks') : CopiesIn(x, tasks') > CopiesIn(x, tasks)}}

SameFor(B) ==
    /\ (B \in DOMAIN config) = (B \in DOMAIN config')
    /\ B \in DOMAIN config => config'[B] = config[B]
    /\ (B \in DOMAIN user_sheets) = (B \in DOMAIN user_sheets')
    /\ B \in DOMAIN user_sheets => user_sheets'[B] = user_sheets[B]
    /\ (B \in first_time_users) = (B \in first_time_users')
    /\ \A i \in 1..Len(sheets) : sheets[i].title[2] = B => sheets'[i] = sheets[i]
    /\ \A i \in (Len(sheets) + 1)..Len(sheets') : sheets'[i].title[2] # B

C18_Step ==
    /\ ~IsRestart => \A B \in Users : B \notin Actors => SameFor(B)
    /\ (Handled(last') /\ sheets' # sheets /\ ~RanSetup(last'))
          => /\ last'.author \in DOMAIN config
             /\ \A i \in 1..Len(sheets) :
                   sheets'[i] # sheets[i] => sheets[i].title[2] = last'.author

C18_Isolation == [][C18_Step]_vars

\* u1 logs "Food 5" while u2 is set up with a spreadsheet of its own, which keeps its rows
C18_Witness ==
    /\ Handled(last)
    /\ last.author = "u1" /\ LastReply(last).kind = "logged"
    /\ "u2" \in DOMAIN config /\ "u2" \in DOMAIN user_sheets
    /\ config["u2"].sheet_id # config["u1"].sheet_id
    /\ sheets[config["u2"].sheet_id].rows = <<Header>>
    /\ Len(sheets[config["u1"].sheet_id].rows) = 2

(***************************************************************************)
(* C19.  The rows a summary command reads are those of the spreadsheet     *)
(* Config maps the sender to when they are fetched, also when a setup of   *)
(* the same user has completed between the "generating" acknowledgment and *)
(* the fetch.                                                               *)
(***************************************************************************)
C19_Claim ==
    \A i \in 1..Len(last.calls) :
        (Handled(last) /\ last.calls[i].op = "get_all_records")
        => /\ last.author \in DOMAIN config
           /\ last.calls[i].sheet = config[last.author].sheet_id

=============================================================================
